---- MODULE Spec2Model ----
(***************************************************************************)
(* tab::ObjectPool<T, BlockCap> (src/ObjectPool.hpp): a singly linked list *)
(* of MemoryBlocks, newest first, each an array of BlockCap units with an  *)
(* intrusive free list threaded through the units' `next` index fields.    *)
(*                                                                         *)
(* The heap is a function from block places to MemoryBlock records; its    *)
(* domain is the set of blocks that are currently allocated.  A pointer to *)
(* a block is its place (1..MaxAddr), nullptr is 0.  A pointer to an       *)
(* object (what get returns and release takes) is a byte address, computed *)
(* from the block's place and the layout of MemoryBlock.                   *)
(*                                                                         *)
(* `new MemoryBlock` running out of memory (std::bad_alloc) is outside the *)
(* model: an operation that needs more blocks than there are free places   *)
(* is not enabled.                                                         *)
(***************************************************************************)
EXTENDS Integers, Sequences, FiniteSets, TLC

\* ---- sizes of the instantiation that is checked ----
BlockCap == 2
ObjectSize == 2
MaxAddr == 3
MaxN == 3

\* ---- layout ----
nullptr == 0
IndexSize == 1
PtrSize == 8

Addrs == 1..MaxAddr
UnitSize == IndexSize + ObjectSize
HeaderSize == PtrSize + 2 * IndexSize
BlockBytes == HeaderSize + BlockCap * UnitSize
UnitsAddr(blk) == blk * BlockBytes + HeaderSize
MemAddr(blk, i) == UnitsAddr(blk) + i * UnitSize + IndexSize

\* unit_index_t is a signed char for BlockCap <= 0x7F
WrapIndex(x) == ((x + 128) % 256) - 128

VARIABLES heap, first_, total_block_, constructed, live, op, lastFreed, trail,
          moved, before, thr, serialized

vars == <<heap, first_, total_block_, constructed, live, op, lastFreed, trail,
          moved, before, thr, serialized>>

\* what the calls on the one pool leave alone
rest == <<moved, before, thr, serialized>>

Pool == [heap |-> heap, first_ |-> first_, total_block_ |-> total_block_]

NoException == "none"
UnavailableBlockCountException == "UnavailableBlockCountException"
UnavailableMemoryException == "UnavailableMemoryException"

\* ---- helpers over a pool value ----
RECURSIVE BlockList(_, _, _)
BlockList(h, blk, fuel) ==
    IF blk = nullptr \/ fuel = 0 THEN <<>>
    ELSE IF blk \notin DOMAIN h THEN <<blk>>
    ELSE <<blk>> \o BlockList(h, h[blk].next, fuel - 1)

Blocks(p) == BlockList(p.heap, p.first_, MaxAddr + 1)

Range(s) == {s[i] : i \in DOMAIN s}
Min(a, b) == IF a < b THEN a ELSE b
Max(a, b) == IF a > b THEN a ELSE b
Delete(h, blk) == [a \in (DOMAIN h) \ {blk} |-> h[a]]
FreeAddrs(p) == Addrs \ DOMAIN p.heap

\* the sequences of n distinct free places `new` may return
AllocSeqs(p, n) ==
    {s \in [1..n -> FreeAddrs(p)] : \A i, j \in 1..n : i # j => s[i] # s[j]}

\* ---- MemoryBlock ----
DefaultBlock ==
    [next |-> nullptr, first |-> 0, used |-> 0,
     units |-> [i \in 0..(BlockCap - 1) |-> [next |-> 0]]]

\* as LinkUnits, but with the last unit linked back to unit 0
LinkUnits_Ring(units, j) ==
    [i \in DOMAIN units |-> [next |-> (i + 1) % BlockCap]]

\* lines 35-38: units[i - 1].next = i for i = 1..BlockCap
RECURSIVE LinkUnits(_, _)
LinkUnits(units, j) ==
    IF j <= BlockCap
    THEN LinkUnits([units EXCEPT ![j - 1].next = WrapIndex(j)], j + 1)
    ELSE units

\* ---- capacity ----
capacity(p) == p.total_block_ * BlockCap

\* ---- addBlock ----
PrependBlock(p, a) ==
    [p EXCEPT !.heap = (a :> [DefaultBlock EXCEPT !.next = p.first_,
                                                  !.units = LinkUnits(@, 1)]) @@ @,
              !.first_ = a]

RECURSIVE AddLoop(_, _, _, _)
AddLoop(p, alloc, i, n_block) ==
    IF i < n_block
    THEN AddLoop(PrependBlock(p, alloc[i + 1]), alloc, i + 1, n_block)
    ELSE p

\* as addBlock, but total_block_ is raised by one, not by n_block
addBlock_CountOne(p, n_block, alloc) ==
    IF n_block > 0
    THEN [pool |-> [AddLoop(p, alloc, 0, n_block) EXCEPT !.total_block_ = @ + 1],
          threw |-> NoException]
    ELSE [pool |-> p, threw |-> UnavailableBlockCountException]

addBlock(p, n_block, alloc) ==
    IF n_block > 0
    THEN [pool |-> [AddLoop(p, alloc, 0, n_block) EXCEPT !.total_block_ = @ + n_block],
          threw |-> NoException]
    ELSE [pool |-> p, threw |-> UnavailableBlockCountException]

\* ---- removeBlock ----
\* as EmptyBlock, but without the test of used
EmptyBlock_Any(b) == b.used >= 0

EmptyBlock(b) == b.used = 0

\* as UnlinkNext, but line 135 (--total_block_) left out
UnlinkNext_NoCount(p, ptr) ==
    [p EXCEPT !.heap = Delete([@ EXCEPT ![ptr].next = p.heap[p.heap[ptr].next].next],
                              p.heap[ptr].next)]

\* lines 132-135: unlink and delete the block after ptr
UnlinkNext(p, ptr) ==
    LET temp == p.heap[ptr].next
    IN [p EXCEPT !.heap = Delete([@ EXCEPT ![ptr].next = p.heap[temp].next], temp),
                 !.total_block_ = @ - 1]

\* as RemoveLoop, but ptr moves on to the next block after a removal too
RECURSIVE RemoveLoop_SkipAfterRemove(_, _, _, _)
RemoveLoop_SkipAfterRemove(p, ptr, ret, n_block) ==
    IF p.heap[ptr].next # nullptr
    THEN IF EmptyBlock(p.heap[p.heap[ptr].next])
         THEN IF ret + 1 = n_block
              THEN [pool |-> UnlinkNext(p, ptr), ret |-> ret + 1]
              ELSE IF UnlinkNext(p, ptr).heap[ptr].next # nullptr
              THEN RemoveLoop_SkipAfterRemove(UnlinkNext(p, ptr),
                        UnlinkNext(p, ptr).heap[ptr].next, ret + 1, n_block)
              ELSE [pool |-> UnlinkNext(p, ptr), ret |-> ret + 1]
         ELSE RemoveLoop_SkipAfterRemove(p, p.heap[ptr].next, ret, n_block)
    ELSE [pool |-> p, ret |-> ret]

\* lines 130-143: the blocks after the head, in list order
RECURSIVE RemoveLoop(_, _, _, _)
RemoveLoop(p, ptr, ret, n_block) ==
    IF p.heap[ptr].next # nullptr
    THEN IF EmptyBlock(p.heap[p.heap[ptr].next])
         THEN IF ret + 1 = n_block
              THEN [pool |-> UnlinkNext(p, ptr), ret |-> ret + 1]
              ELSE RemoveLoop(UnlinkNext(p, ptr), ptr, ret + 1, n_block)
         ELSE RemoveLoop(p, p.heap[ptr].next, ret, n_block)
    ELSE [pool |-> p, ret |-> ret]

\* as RemoveFirst, but the head block is never removed
RemoveFirst_Never(r, n_block) == r

\* lines 144-150: the head block is looked at last
RemoveFirst(r, n_block) ==
    LET p == r.pool
    IN IF EmptyBlock(p.heap[p.first_]) /\ r.ret < n_block
       THEN [pool |-> [p EXCEPT !.heap = Delete(@, p.first_),
                                !.first_ = p.heap[p.first_].next,
                                !.total_block_ = @ - 1],
             ret |-> r.ret + 1]
       ELSE r

\* as removeBlock, but with n_block >= 0 for the test n_block > 0
removeBlock_ZeroAllowed(p, n_block) ==
    IF n_block >= 0
    THEN IF p.total_block_ # 0
         THEN [pool |-> RemoveFirst(RemoveLoop(p, p.first_, 0, n_block), n_block).pool,
               ret |-> RemoveFirst(RemoveLoop(p, p.first_, 0, n_block), n_block).ret,
               threw |-> NoException]
         ELSE [pool |-> p, ret |-> 0, threw |-> NoException]
    ELSE [pool |-> p, ret |-> 0, threw |-> UnavailableBlockCountException]

removeBlock(p, n_block) ==
    IF n_block > 0
    THEN IF p.total_block_ # 0
         THEN LET r == RemoveFirst(RemoveLoop(p, p.first_, 0, n_block), n_block)
              IN [pool |-> r.pool, ret |-> r.ret, threw |-> NoException]
         ELSE [pool |-> p, ret |-> 0, threw |-> NoException]
    ELSE [pool |-> p, ret |-> 0, threw |-> UnavailableBlockCountException]

\* ---- resize ----
\* as resize, but shrinking asks removeBlock for n_block blocks, not for
\* total_block_ - n_block
resize_ShrinkByTarget(p, n_block, alloc) ==
    IF n_block = p.total_block_
    THEN [pool |-> p, ret |-> p.total_block_, threw |-> NoException]
    ELSE IF n_block > p.total_block_
    THEN [pool |-> addBlock(p, n_block - p.total_block_, alloc).pool,
          ret |-> addBlock(p, n_block - p.total_block_, alloc).pool.total_block_,
          threw |-> addBlock(p, n_block - p.total_block_, alloc).threw]
    ELSE [pool |-> removeBlock(p, n_block).pool,
          ret |-> removeBlock(p, n_block).pool.total_block_,
          threw |-> removeBlock(p, n_block).threw]

\* n_block is a size_t, so the test n_block >= 0 of line 174 is always true
resize(p, n_block, alloc) ==
    IF n_block = p.total_block_
    THEN [pool |-> p, ret |-> p.total_block_, threw |-> NoException]
    ELSE IF n_block > p.total_block_
    THEN LET r == addBlock(p, n_block - p.total_block_, alloc)
         IN [pool |-> r.pool, ret |-> r.pool.total_block_, threw |-> r.threw]
    ELSE IF n_block >= 0
    THEN LET r == removeBlock(p, p.total_block_ - n_block)
         IN [pool |-> r.pool, ret |-> r.pool.total_block_, threw |-> r.threw]
    ELSE [pool |-> p, ret |-> 0, threw |-> UnavailableBlockCountException]

\* the number of blocks resize(n_block) allocates
ResizeNewBlocks(p, n_block) ==
    IF n_block > p.total_block_ THEN n_block - p.total_block_ ELSE 0

\* ---- get ----
\* as FullBlock, but a block counts as full as soon as one unit is in use
FullBlock_NonEmpty(b) == b.used > 0

\* line 196: blk->used == BlockCap
FullBlock(b) == b.used = BlockCap

\* as FindBlock, but a full head block gets a new block at once, without the
\* walk along next
FindBlock_HeadOnly(p, blk, alloc) ==
    IF p.heap[blk].used = BlockCap
    THEN [pool |-> addBlock(p, 1, alloc).pool, blk |-> addBlock(p, 1, alloc).pool.first_]
    ELSE [pool |-> p, blk |-> blk]

RECURSIVE FindBlock(_, _, _)
FindBlock(p, blk, alloc) ==
    IF FullBlock(p.heap[blk])
    THEN IF p.heap[blk].next = nullptr
         THEN LET q == addBlock(p, 1, alloc).pool
              IN [pool |-> q, blk |-> q.first_]
         ELSE FindBlock(p, p.heap[blk].next, alloc)
    ELSE [pool |-> p, blk |-> blk]

\* as TakeFirst, but line 206 (blk->first = ...) left out
TakeFirst_NoAdvance(b) ==
    [b EXCEPT !.used = WrapIndex(@ + 1)]

\* lines 204-206: ++blk->used; blk->first = blk->units[blk->first].next
TakeFirst(b) ==
    [b EXCEPT !.used = WrapIndex(@ + 1), !.first = b.units[b.first].next]

get(p, alloc) ==
    LET p1 == IF p.first_ = nullptr THEN addBlock(p, 1, alloc).pool ELSE p
        f == FindBlock(p1, p1.first_, alloc)
        b == f.pool.heap[f.blk]
    IN [pool |-> [f.pool EXCEPT !.heap[f.blk] = TakeFirst(b)],
        ret |-> MemAddr(f.blk, b.first),
        threw |-> NoException]

\* the number of blocks get allocates: one when no block has a free unit
GetNewBlocks(p) ==
    IF \A i \in DOMAIN Blocks(p) : FullBlock(p.heap[Blocks(p)[i]]) THEN 1 ELSE 0

\* what `new` may return to a get: nothing is asked of it unless no block has
\* a free unit, and then there must be a free place
GetAllocs(p) ==
    IF GetNewBlocks(p) = 0 /\ FreeAddrs(p) = {} THEN {<<>>} ELSE AllocSeqs(p, 1)

\* ---- release ----
\* as InUnits, but with the upper bound BlockCap bytes, not BlockCap units,
\* past the start of units
InUnits_ByteBound(blk, ptr) ==
    UnitsAddr(blk) < ptr /\ ptr < UnitsAddr(blk) + BlockCap

\* as InUnits, but with <= for the second <
InUnits_UpperInclusive(blk, ptr) ==
    UnitsAddr(blk) < ptr /\ ptr <= UnitsAddr(blk) + BlockCap * UnitSize

\* line 220: blk->units < ptr && ptr < blk->units + BlockCap
InUnits(blk, ptr) ==
    UnitsAddr(blk) < ptr /\ ptr < UnitsAddr(blk) + BlockCap * UnitSize

\* as OffsetOf, but with the byte distance rounded up to whole units
OffsetOf_RoundUp(blk, ptr) == (ptr - UnitsAddr(blk) + UnitSize - 1) \div UnitSize

\* line 222: the index of the unit whose mem starts at ptr
OffsetOf(blk, ptr) == (ptr - IndexSize - UnitsAddr(blk)) \div UnitSize

\* as PutBack, but line 223 (units[offset].next = blk->first) left out
PutBack_NoLink(b, offset) ==
    [b EXCEPT !.used = WrapIndex(@ - 1), !.first = WrapIndex(offset)]

\* lines 221-224
PutBack(b, offset) ==
    [b EXCEPT !.used = WrapIndex(@ - 1),
              !.units[offset].next = b.first,
              !.first = WrapIndex(offset)]

\* as ReleaseScan, but only the block it starts at is looked at
ReleaseScan_HeadOnly(p, blk, ptr) ==
    IF blk # nullptr /\ InUnits(blk, ptr)
    THEN [pool |-> [p EXCEPT !.heap[blk] = PutBack(@, OffsetOf(blk, ptr))],
          threw |-> NoException]
    ELSE [pool |-> p, threw |-> UnavailableMemoryException]

RECURSIVE ReleaseScan(_, _, _)
ReleaseScan(p, blk, ptr) ==
    IF blk # nullptr
    THEN IF InUnits(blk, ptr)
         THEN [pool |-> [p EXCEPT !.heap[blk] = PutBack(@, OffsetOf(blk, ptr))],
               threw |-> NoException]
         ELSE ReleaseScan(p, p.heap[blk].next, ptr)
    ELSE [pool |-> p, threw |-> UnavailableMemoryException]

\* as release, but a release that leaves a block with used = 0 goes on to
\* removeBlock(1)
release_ThenShrink(p, ptr) ==
    IF ReleaseScan(p, p.first_, ptr).threw = NoException
       /\ \E a \in DOMAIN p.heap : ReleaseScan(p, p.first_, ptr).pool.heap[a].used = 0
    THEN [pool |-> removeBlock(ReleaseScan(p, p.first_, ptr).pool, 1).pool,
          threw |-> NoException]
    ELSE ReleaseScan(p, p.first_, ptr)

\* lines 218-231
release(p, ptr) == ReleaseScan(p, p.first_, ptr)

\* ---- what the caller holds and has seen ----
\* live: the pointers get has returned and release has not yet been given
\* op: the last call, its argument, its return value and what it threw
\* lastFreed: per block, the pointer released last with no get from the
\*            block since
\* trail: the calls since construction, while they are only gets or a single
\*        addBlock
PtrsOf(blks) == {MemAddr(a, i) : a \in blks, i \in 0..(BlockCap - 1)}
BlockOf(ptr) == CHOOSE a \in Addrs : ptr \in PtrsOf({a})
IndexOf(ptr) == CHOOSE i \in 0..(BlockCap - 1) : MemAddr(BlockOf(ptr), i) = ptr
NoTrail == [ok |-> FALSE, n |-> 0, gets |-> 0, added |-> 0]
Call(name, arg, ret, threw) == [name |-> name, arg |-> arg, ret |-> ret, threw |-> threw]
SetPool(p) ==
    /\ heap' = p.heap
    /\ first_' = p.first_
    /\ total_block_' = p.total_block_
Forget(p) ==
    lastFreed' = lastFreed \cap PtrsOf(DOMAIN p.heap)

\* moved: the members of the pool a move constructor has left behind
NotMoved == [done |-> FALSE, first_ |-> nullptr, total_block_ |-> 0]

\* before: the pool as it was when the caller began a get that is followed
\*         at once by the release of the pointer it returned
\* thr: where each of the callers that share the pool is inside get or
\*      release, and what it holds in its locals
\* serialized: the callers keep every call under one lock
NThreads == 2
Threads == 1..NThreads
\* the calls each caller makes at most
MaxCalls == 3
Idle == [pc |-> "idle", blk |-> 0, tmp |-> 0, ptr |-> 0, calls |-> 0]
Returned(c) == [Idle EXCEPT !.calls = c.calls]

NoBefore == [state |-> "none", pool |-> [heap |-> <<>>, first_ |-> nullptr, total_block_ |-> 0]]

Init ==
    /\ heap = <<>>
    /\ first_ = nullptr
    /\ total_block_ = 0
    /\ constructed = FALSE
    /\ live = {}
    /\ op = [name |-> "none", arg |-> 0, ret |-> 0, threw |-> NoException]
    /\ lastFreed = {}
    /\ trail = NoTrail
    /\ moved = NotMoved
    /\ before = NoBefore
    /\ thr = [t \in Threads |-> Idle]
    /\ serialized = TRUE

\* lines 50-52: first_(nullptr), total_block_(0), then addBlock(n_block)
Constructor(n_block, alloc) ==
    addBlock([heap |-> <<>>, first_ |-> nullptr, total_block_ |-> 0], n_block, alloc)

Construct ==
    /\ ~constructed
    /\ op.name = "none"
    /\ \E n_block \in 0..MaxN : \E alloc \in AllocSeqs(Pool, n_block) :
        LET r == Constructor(n_block, alloc)
        IN /\ SetPool(r.pool)
           /\ constructed' = (r.threw = NoException)
           /\ op' = Call("ObjectPool", n_block, 0, r.threw)
           /\ trail' = IF r.threw = NoException
                       THEN [ok |-> TRUE, n |-> n_block, gets |-> 0, added |-> 0]
                       ELSE NoTrail
    /\ UNCHANGED <<live, lastFreed>>
    /\ UNCHANGED rest

\* line 43: ObjectPool() : ObjectPool(1)
ConstructDefault ==
    /\ ~constructed
    /\ op.name = "none"
    /\ \E alloc \in AllocSeqs(Pool, 1) :
        LET r == Constructor(1, alloc)
        IN /\ SetPool(r.pool)
           /\ constructed' = (r.threw = NoException)
           /\ op' = Call("ObjectPool()", 0, 0, r.threw)
           /\ trail' = IF r.threw = NoException
                       THEN [ok |-> TRUE, n |-> 1, gets |-> 0, added |-> 0]
                       ELSE NoTrail
    /\ UNCHANGED <<live, lastFreed>>
    /\ UNCHANGED rest

Capacity ==
    /\ constructed
    /\ op' = Call("capacity", 0, capacity(Pool), NoException)
    /\ UNCHANGED <<heap, first_, total_block_, constructed, live, lastFreed, trail>>
    /\ UNCHANGED rest

AddBlock ==
    /\ constructed
    /\ \E n_block \in 0..MaxN : \E alloc \in AllocSeqs(Pool, n_block) :
        LET r == addBlock(Pool, n_block, alloc)
        IN /\ SetPool(r.pool)
           /\ op' = Call("addBlock", n_block, 0, r.threw)
           /\ trail' = IF r.threw # NoException THEN trail
                       ELSE IF trail.ok /\ trail.gets = 0 /\ trail.added = 0
                       THEN [trail EXCEPT !.added = n_block]
                       ELSE NoTrail
    /\ UNCHANGED <<constructed, live, lastFreed>>
    /\ UNCHANGED rest

RemoveBlock ==
    /\ constructed
    /\ \E n_block \in 0..MaxN :
        LET r == removeBlock(Pool, n_block)
        IN /\ SetPool(r.pool)
           /\ op' = Call("removeBlock", n_block, r.ret, r.threw)
           /\ trail' = IF r.threw # NoException THEN trail ELSE NoTrail
           /\ Forget(r.pool)
    /\ UNCHANGED <<constructed, live>>
    /\ UNCHANGED rest

Resize ==
    /\ constructed
    /\ \E n_block \in 0..MaxN : \E alloc \in AllocSeqs(Pool, ResizeNewBlocks(Pool, n_block)) :
        LET r == resize(Pool, n_block, alloc)
        IN /\ SetPool(r.pool)
           /\ op' = Call("resize", n_block, r.ret, r.threw)
           /\ trail' = NoTrail
           /\ Forget(r.pool)
    /\ UNCHANGED <<constructed, live>>
    /\ UNCHANGED rest

Get ==
    /\ constructed
    /\ \E alloc \in GetAllocs(Pool) :
        LET r == get(Pool, alloc)
        IN /\ SetPool(r.pool)
           /\ op' = Call("get", 0, r.ret, r.threw)
           /\ live' = live \cup {r.ret}
           /\ lastFreed' = lastFreed \ PtrsOf({BlockOf(r.ret)})
           /\ trail' = IF trail.ok /\ trail.added = 0 /\ trail.gets <= BlockCap
                       THEN [trail EXCEPT !.gets = @ + 1]
                       ELSE NoTrail
    /\ UNCHANGED constructed
    /\ UNCHANGED rest

\* release of a pointer the caller holds
Release ==
    /\ constructed
    /\ \E ptr \in live :
        LET r == release(Pool, ptr)
        IN /\ SetPool(r.pool)
           /\ op' = Call("release", ptr, 0, r.threw)
           /\ live' = IF r.threw = NoException THEN live \ {ptr} ELSE live
           /\ lastFreed' = IF r.threw = NoException
                           THEN (lastFreed \ PtrsOf({BlockOf(ptr)})) \cup {ptr}
                           ELSE lastFreed
           /\ trail' = NoTrail
    /\ UNCHANGED constructed
    /\ UNCHANGED rest

Next ==
    \/ Construct
    \/ ConstructDefault
    \/ Capacity
    \/ AddBlock
    \/ RemoveBlock
    \/ Resize
    \/ Get
    \/ Release

Spec == Init /\ [][Next]_vars

\* ---- what the claims speak of ----
PoolBlocks(p) == Range(Blocks(p))
Distinct(s) == Cardinality(Range(s)) = Len(s)

\* the indices met from b.first along the units' next fields, the last one
\* being the first that is no index of a unit (or the one the walk gave up at)
RECURSIVE Chain(_, _, _)
Chain(b, i, fuel) ==
    IF i \notin 0..(BlockCap - 1) \/ fuel = 0 THEN <<i>>
    ELSE <<i>> \o Chain(b, b.units[i].next, fuel - 1)

FreeList(b) == SubSeq(Chain(b, b.first, BlockCap + 1), 1, Len(Chain(b, b.first, BlockCap + 1)) - 1)
ChainEnd(b) == Chain(b, b.first, BlockCap + 1)[Len(Chain(b, b.first, BlockCap + 1))]

\* a slot is Free when it is on its block's free list, InUse otherwise
FreeSlots(p) == {MemAddr(a, i) : a \in PoolBlocks(p), i \in 0..(BlockCap - 1)}
                \cap UNION {{MemAddr(a, i) : i \in Range(FreeList(p.heap[a]))} : a \in PoolBlocks(p)}
InUseSlots(p) == PtrsOf(PoolBlocks(p)) \ FreeSlots(p)
NoFreeUnit(p) == \A a \in PoolBlocks(p) : p.heap[a].used = BlockCap
EmptyBlocks(p) == {a \in PoolBlocks(p) : p.heap[a].used = 0}
AddInputs(p) == {x \in [n : 0..MaxN, alloc : UNION {AllocSeqs(p, n) : n \in 0..MaxN}] :
                    x.alloc \in AllocSeqs(p, x.n)}
ResizeInputs(p) == {x \in [n : 0..MaxN, alloc : UNION {AllocSeqs(p, n) : n \in 0..MaxN}] :
                    x.alloc \in AllocSeqs(p, ResizeNewBlocks(p, x.n))}

\* C1: with release given live pointers only, every get returns a slot that
\* was Free before the call (on the free list of its block, the block being
\* the one get has just added when no block had a free unit) and that no live
\* pointer names; the live pointers are exactly the InUse slots; get turns
\* exactly the returned slot from Free to InUse, release turns exactly the
\* released slot from InUse to Free, and addBlock, removeBlock and resize
\* turn no slot from one to the other.
C1_GetReturnsFreeSlot ==
    constructed =>
        /\ live = InUseSlots(Pool)
        /\ \A alloc \in GetAllocs(Pool) :
            LET r == get(Pool, alloc)
            IN /\ r.ret \notin live
               /\ r.ret \in FreeSlots(IF NoFreeUnit(Pool) THEN addBlock(Pool, 1, alloc).pool ELSE Pool)
               /\ InUseSlots(r.pool) = InUseSlots(Pool) \cup {r.ret}
        /\ \A ptr \in live : InUseSlots(release(Pool, ptr).pool) = InUseSlots(Pool) \ {ptr}
        /\ \A x \in AddInputs(Pool) : InUseSlots(addBlock(Pool, x.n, x.alloc).pool) = InUseSlots(Pool)
        /\ \A n \in 0..MaxN : InUseSlots(removeBlock(Pool, n).pool) = InUseSlots(Pool)
        /\ \A x \in ResizeInputs(Pool) : InUseSlots(resize(Pool, x.n, x.alloc).pool) = InUseSlots(Pool)

\* a get has just returned a slot that was released before, while other
\* pointers are live
C1_Witness ==
    /\ op.name = "get"
    /\ Cardinality(live) = BlockCap + 1
    /\ \E a \in PoolBlocks(Pool) : heap[a].used = BlockCap /\ heap[a].units[0].next # 1

\* C2: every block of the pool has 0 <= used <= BlockCap, and the chain from
\* first along the units' next fields ends at BlockCap after exactly
\* BlockCap - used distinct indices, none of them the slot of a live pointer;
\* first = BlockCap exactly when the block is full.
C2_FreeListInvariant ==
    \A a \in PoolBlocks(Pool) :
        /\ a \in DOMAIN heap
        /\ 0 <= heap[a].used
        /\ heap[a].used <= BlockCap
        /\ ChainEnd(heap[a]) = BlockCap
        /\ Len(FreeList(heap[a])) = BlockCap - heap[a].used
        /\ Distinct(FreeList(heap[a]))
        /\ \A i \in Range(FreeList(heap[a])) : MemAddr(a, i) \notin live
        /\ (heap[a].first = BlockCap) <=> (heap[a].used = BlockCap)

\* a block whose free list was rebuilt by releases in the reverse order, next
\* to a full block
C2_Witness ==
    /\ op.name = "release"
    /\ \E a, b \in PoolBlocks(Pool) :
        /\ heap[a].used = 0 /\ heap[a].first = BlockCap - 1
        /\ heap[a].units[BlockCap - 1].next = BlockCap - 2
        /\ heap[b].used = BlockCap

\* C3: total_block_ is the number of blocks met from first_ along the next
\* pointers, which are distinct allocated blocks (the list is acyclic), also
\* after calls that threw; capacity() returns that number times BlockCap and
\* changes nothing.
C3_BlockCount ==
    /\ Len(Blocks(Pool)) = total_block_
    /\ Distinct(Blocks(Pool))
    /\ PoolBlocks(Pool) \subseteq DOMAIN heap
    /\ capacity(Pool) = Len(Blocks(Pool)) * BlockCap
    /\ (op.name = "capacity" => op.ret = Len(Blocks(Pool)) * BlockCap)

\* capacity() has been called after a removeBlock that removed blocks
C3_Witness ==
    /\ op.name = "capacity"
    /\ op.ret = 2 * BlockCap
    /\ Cardinality(DOMAIN heap) = 2
    /\ live # {}
    /\ ~trail.ok

\* C4: get changes the block count only when no block has a free unit (no
\* block at all, or every block full): then it adds exactly one block, which
\* becomes the head, and the returned pointer lies in it; otherwise the block
\* list and total_block_ are unchanged.  After ObjectPool(1) the first
\* BlockCap gets leave one block and the next one makes it two.
C4_GetAddsBlockOnlyWhenFull ==
    constructed =>
        /\ \A alloc \in GetAllocs(Pool) :
            LET r == get(Pool, alloc)
            IN IF NoFreeUnit(Pool)
               THEN /\ r.pool.total_block_ = total_block_ + 1
                    /\ r.pool.first_ \notin PoolBlocks(Pool)
                    /\ Blocks(r.pool) = <<r.pool.first_>> \o Blocks(Pool)
                    /\ BlockOf(r.ret) = r.pool.first_
               ELSE /\ r.pool.total_block_ = total_block_
                    /\ Blocks(r.pool) = Blocks(Pool)
        /\ (trail.ok /\ trail.n = 1 /\ trail.added = 0 /\ trail.gets <= BlockCap
                => total_block_ = 1)
        /\ (trail.ok /\ trail.n = 1 /\ trail.added = 0 /\ trail.gets = BlockCap + 1
                => total_block_ = 2 /\ heap[first_].used = 1)

\* the (BlockCap+1)-th get on a fresh single-block pool has just returned
C4_Witness ==
    /\ op.name = "get"
    /\ trail.ok /\ trail.n = 1 /\ trail.gets = BlockCap + 1
    /\ total_block_ = 2

\* C5: release of a live pointer does not throw, takes one off the used count
\* of the block that holds the slot and makes the slot the head of that
\* block's free list; the next get served from that block returns the slot
\* released last.
C5_ReleaseThenReuse ==
    constructed =>
        /\ \A ptr \in live :
            LET r == release(Pool, ptr)
                a == BlockOf(ptr)
            IN /\ r.threw = NoException
               /\ a \in PoolBlocks(r.pool)
               /\ r.pool.heap[a].used = heap[a].used - 1
               /\ r.pool.heap[a].first = IndexOf(ptr)
               /\ r.pool.heap[a].units[IndexOf(ptr)].next = heap[a].first
        /\ \A ptr \in lastFreed : \A alloc \in GetAllocs(Pool) :
            BlockOf(get(Pool, alloc).ret) = BlockOf(ptr) => get(Pool, alloc).ret = ptr

\* a pointer into the older of three blocks has just been released, while a
\* slot released earlier in another block still waits to be reused
C5_Witness ==
    /\ op.name = "release"
    /\ op.arg \in lastFreed
    /\ Cardinality(lastFreed) = 2
    /\ total_block_ = 3
    /\ BlockOf(op.arg) # first_

\* C6: removeBlock and resize remove only blocks with used = 0: every live
\* pointer still lies in a block of the pool afterwards and its release
\* does not throw.
KeepsUsedBlocks(q) ==
    /\ \A a \in PoolBlocks(Pool) \ PoolBlocks(q) : heap[a].used = 0
    /\ \A ptr \in live :
        /\ BlockOf(ptr) \in PoolBlocks(q)
        /\ q.heap[BlockOf(ptr)].used = heap[BlockOf(ptr)].used
        /\ release(q, ptr).threw = NoException

C6_OnlyEmptyBlocksRemoved ==
    constructed =>
        /\ \A n \in 0..MaxN : KeepsUsedBlocks(removeBlock(Pool, n).pool)
        /\ \A x \in ResizeInputs(Pool) : KeepsUsedBlocks(resize(Pool, x.n, x.alloc).pool)

\* removeBlock has just removed two empty blocks and left the block that
\* holds the live pointers
C6_Witness ==
    /\ op.name = "removeBlock"
    /\ op.ret = 2
    /\ total_block_ = 1
    /\ live # {}

\* C7: for n > 0, removeBlock(n) removes exactly min(n, E) blocks, E being
\* the number of blocks with used = 0 before the call, returns that number
\* and lowers total_block_ by it.
C7_RemoveBlockCount ==
    constructed =>
        \A n \in 1..MaxN :
            LET r == removeBlock(Pool, n)
            IN /\ r.threw = NoException
               /\ r.ret = Min(n, Cardinality(EmptyBlocks(Pool)))
               /\ r.pool.total_block_ = total_block_ - r.ret
               /\ PoolBlocks(r.pool) \subseteq PoolBlocks(Pool)
               /\ Cardinality(PoolBlocks(Pool) \ PoolBlocks(r.pool)) = r.ret

\* removeBlock was asked for more blocks than were empty: it removed the one
\* empty block and kept the two that hold objects
C7_Witness ==
    /\ op.name = "removeBlock"
    /\ op.arg = 3
    /\ op.ret = 1
    /\ total_block_ = 2
    /\ \A a \in PoolBlocks(Pool) : heap[a].used > 0

\* C8: resize(n) never throws and returns the block count after the call:
\* nothing changes when n = total_block_, total_block_ becomes n when
\* n > total_block_, and max(n, total_block_ - E) when n < total_block_.
C8_ResizeResult ==
    constructed =>
        \A x \in ResizeInputs(Pool) :
            LET r == resize(Pool, x.n, x.alloc)
            IN /\ r.threw = NoException
               /\ r.ret = r.pool.total_block_
               /\ r.ret = Len(Blocks(r.pool))
               /\ (x.n = total_block_ => r.pool = Pool)
               /\ (x.n > total_block_ => r.pool.total_block_ = x.n)
               /\ (x.n < total_block_ =>
                     r.pool.total_block_ = Max(x.n, total_block_ - Cardinality(EmptyBlocks(Pool))))

\* resize(1) has just returned 2: of three blocks only one was empty
C8_Witness ==
    /\ op.name = "resize"
    /\ op.arg = 1
    /\ op.ret = 2
    /\ Cardinality(EmptyBlocks(Pool)) = 0

\* C9: after ObjectPool(n) capacity() is n * BlockCap (n = 1 for
\* ObjectPool()), and after a following addBlock(k), k > 0, it is
\* (n + k) * BlockCap.
C9_CapacityAfterConstruction ==
    /\ (trail.ok /\ trail.gets = 0
            => capacity(Pool) = (trail.n + trail.added) * BlockCap)
    /\ (op.name = "ObjectPool" /\ constructed => capacity(Pool) = op.arg * BlockCap)
    /\ (op.name = "ObjectPool()" => constructed /\ capacity(Pool) = BlockCap)
    /\ (op.name = "capacity" /\ trail.ok /\ trail.gets = 0
            => op.ret = (trail.n + trail.added) * BlockCap)

\* addBlock(1) has just returned on a pool constructed with two blocks
C9_Witness ==
    /\ op.name = "addBlock"
    /\ trail.ok /\ trail.n = 2 /\ trail.added = 1
    /\ capacity(Pool) = 3 * BlockCap

\* C10: addBlock(0) and removeBlock(0) throw UnavailableBlockCountException
\* and leave the pool as it was; ObjectPool(0) throws the same, so that no
\* pool comes to be.
C10_ZeroCountThrows ==
    /\ constructed =>
        /\ addBlock(Pool, 0, <<>>).threw = UnavailableBlockCountException
        /\ addBlock(Pool, 0, <<>>).pool = Pool
        /\ removeBlock(Pool, 0).threw = UnavailableBlockCountException
        /\ removeBlock(Pool, 0).pool = Pool
    /\ (op.name \in {"addBlock", "removeBlock", "ObjectPool"}
            => (op.threw = UnavailableBlockCountException <=> op.arg = 0))
    /\ (op.name = "ObjectPool" /\ op.arg = 0
            => ~constructed /\ DOMAIN heap = {} /\ first_ = nullptr /\ total_block_ = 0)

\* addBlock(0) has just thrown on a pool that holds live objects
C10_Witness ==
    /\ op.name = "addBlock"
    /\ op.arg = 0
    /\ op.threw = UnavailableBlockCountException
    /\ total_block_ = 2
    /\ live # {}

\* ---- release of pointers the caller does not hold ----
\* The addresses tried: nullptr, every address get can return for a block
\* at any place (whether a block is there or not), and for every place the
\* first byte of units and the first byte past units.
UnitsEnd(blk) == UnitsAddr(blk) + BlockCap * UnitSize
ProbePtrs ==
    {nullptr} \cup PtrsOf(Addrs) \cup {UnitsAddr(a) : a \in Addrs} \cup {UnitsEnd(a) : a \in Addrs}

\* the bytes of the slots of block a: from the first byte of slot 0 up to,
\* not including, the first byte past slot BlockCap - 1
SlotStorage(a) == UnitsAddr(a)..(UnitsEnd(a) - 1)
OutsideAllBlocks(p, ptr) == \A a \in PoolBlocks(p) : ptr \notin SlotStorage(a)

\* release has returned normally for a pointer that was not live: what the
\* pool does from there on is not followed
Undefined == op.name = "release (not live)" /\ op.threw = NoException

ReleaseAny ==
    /\ constructed
    /\ ~Undefined
    /\ \E ptr \in ProbePtrs \ live :
        LET r == release(Pool, ptr)
        IN /\ SetPool(r.pool)
           /\ op' = Call("release (not live)", ptr, 0, r.threw)
    /\ UNCHANGED <<constructed, live, lastFreed, trail>>
    /\ UNCHANGED rest

NextAny ==
    \/ ~Undefined /\ Construct
    \/ ~Undefined /\ ConstructDefault
    \/ ~Undefined /\ Capacity
    \/ ~Undefined /\ AddBlock
    \/ ~Undefined /\ RemoveBlock
    \/ ~Undefined /\ Resize
    \/ ~Undefined /\ Get
    \/ ~Undefined /\ Release
    \/ ReleaseAny

SpecAny == Init /\ [][NextAny]_vars

\* ---- swap and the move constructor ----
Members(p) == [first_ |-> p.first_, total_block_ |-> p.total_block_]

\* lines 67-70: std::swap of first_ and of total_block_
swap(this, other) ==
    [this |-> [first_ |-> other.first_, total_block_ |-> other.total_block_],
     other |-> [first_ |-> this.first_, total_block_ |-> this.total_block_]]

\* lines 54-56, 235-236: the move constructor has no member initialiser and
\* the members have no default: before the swap this->first_ and
\* this->total_block_ hold whatever the memory held
Indeterminate == [first_ : {nullptr} \cup Addrs, total_block_ : 0..MaxN]

MoveConstructor(uninit, source) == swap(uninit, source)

\* a second pool is move-constructed from the pool; from then on heap,
\* first_ and total_block_ are the new pool's and moved holds the source's
MoveConstruct ==
    /\ constructed
    /\ ~moved.done
    /\ \E uninit \in Indeterminate :
        LET r == MoveConstructor(uninit, Members(Pool))
        IN /\ first_' = r.this.first_
           /\ total_block_' = r.this.total_block_
           /\ moved' = [done |-> TRUE, first_ |-> r.other.first_,
                        total_block_ |-> r.other.total_block_]
    /\ op' = Call("ObjectPool(ObjectPool&&)", 0, 0, NoException)
    /\ UNCHANGED <<heap, constructed, live, lastFreed, trail, before, thr, serialized>>

\* the calls on the source up to the move; what is called on either pool
\* after it is not followed
NextMove ==
    \/ ~moved.done /\ Construct
    \/ ~moved.done /\ ConstructDefault
    \/ ~moved.done /\ Capacity
    \/ ~moved.done /\ AddBlock
    \/ ~moved.done /\ RemoveBlock
    \/ ~moved.done /\ Resize
    \/ ~moved.done /\ Get
    \/ ~moved.done /\ Release
    \/ MoveConstruct

SpecMove == Init /\ [][NextMove]_vars

\* C11: release of a pointer that lies in the slot storage of no block of the
\* pool (any pointer when the pool has no block; a pointer into a place whose
\* block has been removed) throws UnavailableMemoryException and leaves the
\* pool as it was.
C11_OutsidePointerThrows ==
    /\ constructed =>
        \A ptr \in ProbePtrs :
            OutsideAllBlocks(Pool, ptr) =>
                /\ release(Pool, ptr).threw = UnavailableMemoryException
                /\ release(Pool, ptr).pool = Pool
    /\ (op.name = "release (not live)" /\ OutsideAllBlocks(Pool, op.arg)
            => op.threw = UnavailableMemoryException)

\* release has just thrown for a pointer into a place that holds no block,
\* on a pool of two blocks with live objects
C11_Witness ==
    /\ op.name = "release (not live)"
    /\ op.threw = UnavailableMemoryException
    /\ op.arg \in PtrsOf(Addrs \ DOMAIN heap)
    /\ total_block_ = 2
    /\ live # {}
    /\ ~trail.ok

\* C12 as stated: release of a pointer that no get of this pool has returned
\* throws UnavailableMemoryException, wherever the pointer lies.  (While
\* trail.ok and trail.gets = 0 no get has been called since construction.)
C12_NeverHandedOutThrows ==
    (op.name = "release (not live)" /\ trail.ok /\ trail.gets = 0)
        => op.threw = UnavailableMemoryException

\* C12 as amended: release of a pointer that is not live throws
\* UnavailableMemoryException when the pointer lies in the slot storage of no
\* block of the pool; when it names a Free slot of a block of the pool,
\* release returns normally, takes one off that block's used count and makes
\* the slot the head of the free list once more.
C12_FreeSlotNotDetected ==
    (constructed /\ ~Undefined) =>
        \A ptr \in ProbePtrs \ live :
            /\ OutsideAllBlocks(Pool, ptr) =>
                    release(Pool, ptr).threw = UnavailableMemoryException
            /\ ptr \in FreeSlots(Pool) =>
                    /\ release(Pool, ptr).threw = NoException
                    /\ release(Pool, ptr).pool.heap[BlockOf(ptr)].used
                            = WrapIndex(heap[BlockOf(ptr)].used - 1)
                    /\ release(Pool, ptr).pool.heap[BlockOf(ptr)].first = IndexOf(ptr)
                    /\ release(Pool, ptr).pool.heap[BlockOf(ptr)].units[IndexOf(ptr)].next
                            = heap[BlockOf(ptr)].first

\* release has just returned normally for a slot of the older block that no
\* get has ever returned; the block's used count is now -1
C12_Witness ==
    /\ op.name = "release (not live)"
    /\ op.threw = NoException
    /\ trail.ok /\ trail.gets = 0
    /\ total_block_ = 2
    /\ BlockOf(op.arg) # first_
    /\ heap[BlockOf(op.arg)].used = -1

\* C13: after B is move-constructed from A, B has A's block list and
\* total_block_ (every pointer live in A can be released through B) and A is
\* empty: first_ = nullptr, total_block_ = 0, capacity() = 0.
C13_MoveLeavesSourceEmpty ==
    moved.done =>
        /\ Len(Blocks(Pool)) = total_block_
        /\ \A ptr \in live : release(Pool, ptr).threw = NoException
        /\ moved.first_ = nullptr
        /\ moved.total_block_ = 0
        /\ capacity(moved) = 0

\* the blocks of p in list order that come before block a
BlocksBefore(p, a) ==
    {Blocks(p)[i] : i \in {j \in DOMAIN Blocks(p) : \A k \in 1..j : Blocks(p)[k] # a}}
\* the first block in list order with a unit to spare
FirstFit(p) ==
    Blocks(p)[CHOOSE i \in DOMAIN Blocks(p) :
                /\ p.heap[Blocks(p)[i]].used < BlockCap
                /\ \A j \in 1..(i - 1) : p.heap[Blocks(p)[j]].used = BlockCap]

\* C14: get is first-fit in list order: when some block has used < BlockCap,
\* the returned slot lies in the first such block along the next links from
\* the head, it is the slot at that block's first, that block's used goes up
\* by one and its first moves to the link stored in the slot, and every other
\* block is left as it was; no block before the one get has just served has a
\* unit to spare.
C14_GetFirstFit ==
    constructed =>
        /\ \A alloc \in GetAllocs(Pool) :
            LET r == get(Pool, alloc)
                a == FirstFit(Pool)
            IN ~NoFreeUnit(Pool) =>
                /\ r.ret = MemAddr(a, heap[a].first)
                /\ \A b \in BlocksBefore(Pool, a) : heap[b].used = BlockCap
                /\ r.pool.heap[a].used = heap[a].used + 1
                /\ r.pool.heap[a].first = heap[a].units[heap[a].first].next
                /\ r.pool.heap[a].units = heap[a].units
                /\ DOMAIN r.pool.heap = DOMAIN heap
                /\ \A b \in DOMAIN heap \ {a} : r.pool.heap[b] = heap[b]
        /\ (op.name = "get" =>
                \A b \in BlocksBefore(Pool, BlockOf(op.ret)) : heap[b].used = BlockCap)

\* a get has just walked past the full head block and taken a slot from a
\* later block
C14_Witness ==
    /\ op.name = "get"
    /\ BlockOf(op.ret) \in PoolBlocks(Pool) \ {first_}
    /\ heap[first_].used = BlockCap
    /\ op.ret \in live

Reverse(s) == [i \in 1..Len(s) |-> s[Len(s) + 1 - i]]

\* C15: addBlock(n) with n > 0 puts exactly n new blocks in front of the
\* previous head (the one allocated last first), each with used = 0 and the
\* free list 0, 1, ..., BlockCap-1 ending in the index BlockCap, and leaves
\* the blocks that were there in their order, each with its used, first and
\* units as before; the gets served by a fresh block return its slots in
\* ascending index order.
C15_AddBlockPrepends ==
    constructed =>
        /\ \A x \in AddInputs(Pool) :
            LET r == addBlock(Pool, x.n, x.alloc)
            IN x.n > 0 =>
                /\ r.threw = NoException
                /\ Blocks(r.pool) = Reverse(x.alloc) \o Blocks(Pool)
                /\ Len(Blocks(r.pool)) = Len(Blocks(Pool)) + x.n
                /\ \A a \in Range(x.alloc) :
                    /\ a \notin DOMAIN heap
                    /\ r.pool.heap[a].used = 0
                    /\ r.pool.heap[a].first = 0
                    /\ \A i \in 0..(BlockCap - 1) : r.pool.heap[a].units[i].next = i + 1
                    /\ FreeList(r.pool.heap[a]) = [i \in 1..BlockCap |-> i - 1]
                    /\ ChainEnd(r.pool.heap[a]) = BlockCap
                /\ \A b \in DOMAIN heap : r.pool.heap[b] = heap[b]
        /\ (op.name = "get" /\ trail.ok /\ trail.n = 1 /\ trail.added = 0
                /\ trail.gets \in 1..BlockCap
                => op.ret = MemAddr(first_, trail.gets - 1))

\* addBlock has just put two or more blocks in front of a block in use
C15_Witness ==
    /\ op.name = "addBlock"
    /\ op.threw = NoException
    /\ op.arg >= 2
    /\ total_block_ > op.arg
    /\ heap[Blocks(Pool)[op.arg + 1]].used > 0
    /\ \A i \in 1..op.arg : heap[Blocks(Pool)[i]].used = 0

\* the blocks after the head with used = 0, in list order
EmptyAfterHead(p) ==
    SelectSeq(Tail(Blocks(p)), LAMBDA a : p.heap[a].used = 0)

\* what removeBlock(n) is to remove: the first n empty blocks after the head,
\* and the head when it is empty and fewer than n of those were there
RemovedBy(p, n) ==
    Range(SubSeq(EmptyAfterHead(p), 1, Min(n, Len(EmptyAfterHead(p)))))
    \cup (IF p.heap[p.first_].used = 0 /\ Len(EmptyAfterHead(p)) < n
          THEN {p.first_} ELSE {})

\* C16: removeBlock(n) takes the empty blocks after the head in list order
\* first and the head last: the head goes only if it is empty and fewer than
\* n empty blocks after it were removed; the blocks that remain keep their
\* order, and each its used, first and units.
C16_RemoveBlockOrder ==
    constructed /\ total_block_ # 0 =>
        \A n \in 1..MaxN :
            LET r == removeBlock(Pool, n)
            IN /\ PoolBlocks(Pool) \ PoolBlocks(r.pool) = RemovedBy(Pool, n)
               /\ (first_ \notin PoolBlocks(r.pool)
                    => /\ heap[first_].used = 0
                       /\ Len(EmptyAfterHead(Pool)) < n
                       /\ EmptyBlocks(r.pool) = {})
               /\ Blocks(r.pool) =
                    SelectSeq(Blocks(Pool), LAMBDA a : a \notin RemovedBy(Pool, n))
               /\ \A b \in PoolBlocks(r.pool) :
                    /\ r.pool.heap[b].used = heap[b].used
                    /\ r.pool.heap[b].first = heap[b].first
                    /\ r.pool.heap[b].units = heap[b].units

\* removeBlock(1) has just removed an empty block after the head and has
\* kept the head, empty as well, in front of a block in use
C16_Witness ==
    /\ op.name = "removeBlock"
    /\ op.arg = 1
    /\ op.ret = 1
    /\ total_block_ = 2
    /\ heap[first_].used = 0
    /\ heap[Blocks(Pool)[2]].used > 0

\* C17: release of a live pointer changes only the block that holds the
\* slot, and of it only used, first and the next field of the released slot:
\* the block list, total_block_, the set of allocated blocks and every other
\* block are as before, and a block whose used the release brings to 0 is
\* still in the list.
C17_ReleaseFrame ==
    constructed =>
        /\ \A ptr \in live :
            LET r == release(Pool, ptr)
                a == BlockOf(ptr)
            IN /\ Blocks(r.pool) = Blocks(Pool)
               /\ r.pool.first_ = first_
               /\ r.pool.total_block_ = total_block_
               /\ DOMAIN r.pool.heap = DOMAIN heap
               /\ \A b \in DOMAIN heap \ {a} : r.pool.heap[b] = heap[b]
               /\ r.pool.heap[a].next = heap[a].next
               /\ \A i \in 0..(BlockCap - 1) \ {IndexOf(ptr)} :
                    r.pool.heap[a].units[i] = heap[a].units[i]
               /\ r.pool.heap[a] =
                    [heap[a] EXCEPT !.used = heap[a].used - 1,
                                    !.first = IndexOf(ptr),
                                    !.units[IndexOf(ptr)].next = heap[a].first]
               /\ (heap[a].used = 1 => a \in EmptyBlocks(r.pool))
        /\ (op.name = "release" => BlockOf(op.arg) \in PoolBlocks(Pool))

\* release has just brought the used count of a block to 0 while another
\* block holds a live object; the emptied block is still in the list
C17_Witness ==
    /\ op.name = "release"
    /\ op.threw = NoException
    /\ BlockOf(op.arg) \in PoolBlocks(Pool)
    /\ heap[BlockOf(op.arg)].used = 0
    /\ total_block_ >= 2
    /\ \E ptr \in live : BlockOf(ptr) # BlockOf(op.arg)

\* ---- a get followed at once by the release of what it returned ----
TripGet ==
    /\ constructed
    /\ before.state = "none"
    /\ \E alloc \in GetAllocs(Pool) :
        LET r == get(Pool, alloc)
        IN /\ SetPool(r.pool)
           /\ op' = Call("get", 0, r.ret, r.threw)
           /\ live' = live \cup {r.ret}
           /\ lastFreed' = lastFreed \ PtrsOf({BlockOf(r.ret)})
    /\ trail' = NoTrail
    /\ before' = [state |-> "got", pool |-> Pool]
    /\ UNCHANGED <<constructed, moved, thr, serialized>>

TripRelease ==
    /\ before.state = "got"
    /\ LET r == release(Pool, op.ret)
       IN /\ SetPool(r.pool)
          /\ op' = Call("release", op.ret, 0, r.threw)
          /\ live' = IF r.threw = NoException THEN live \ {op.ret} ELSE live
          /\ lastFreed' = IF r.threw = NoException
                          THEN (lastFreed \ PtrsOf({BlockOf(op.ret)})) \cup {op.ret}
                          ELSE lastFreed
    /\ trail' = NoTrail
    /\ before' = [before EXCEPT !.state = "done"]
    /\ UNCHANGED <<constructed, moved, thr, serialized>>

\* any calls, then one get and the release of its pointer; what is called
\* after the pair is not followed
NextTrip ==
    \/ before.state = "none" /\ Construct
    \/ before.state = "none" /\ ConstructDefault
    \/ before.state = "none" /\ Capacity
    \/ before.state = "none" /\ AddBlock
    \/ before.state = "none" /\ RemoveBlock
    \/ before.state = "none" /\ Resize
    \/ before.state = "none" /\ Get
    \/ before.state = "none" /\ Release
    \/ TripGet
    \/ TripRelease

SpecTrip == Init /\ [][NextTrip]_vars

\* q is p with one more block, empty and fully linked, in front
OneEmptyBlockMore(q, p) ==
    /\ q.total_block_ = p.total_block_ + 1
    /\ q.first_ \notin DOMAIN p.heap
    /\ Blocks(q) = <<q.first_>> \o Blocks(p)
    /\ DOMAIN q.heap = DOMAIN p.heap \cup {q.first_}
    /\ \A b \in DOMAIN p.heap : q.heap[b] = p.heap[b]
    /\ q.heap[q.first_].used = 0
    /\ q.heap[q.first_].first = 0
    /\ \A i \in 0..(BlockCap - 1) : q.heap[q.first_].units[i].next = i + 1

\* C19: h = get() followed at once by release(h) gives back the pool as it
\* was before the get: the same block list and in every block the same
\* used, first and next fields, when some block had a free unit; when the
\* get had to add a block, the pool as it was with one more block, empty and
\* fully linked, in front.
C19_GetReleaseRoundTrip ==
    /\ constructed =>
        \A alloc \in GetAllocs(Pool) :
            LET g == get(Pool, alloc)
                r == release(g.pool, g.ret)
            IN /\ r.threw = NoException
               /\ IF NoFreeUnit(Pool)
                  THEN OneEmptyBlockMore(r.pool, Pool)
                  ELSE r.pool = Pool
    /\ before.state = "done" =>
        /\ op.threw = NoException
        /\ IF NoFreeUnit(before.pool)
           THEN OneEmptyBlockMore(Pool, before.pool)
           ELSE Pool = before.pool

\* a get has taken a slot from a block with another slot in use and a slot
\* released earlier on its free list, and the pointer has been released again
C19_Witness ==
    /\ before.state = "done"
    /\ op.name = "release"
    /\ ~NoFreeUnit(before.pool)
    /\ heap[BlockOf(op.arg)].used >= 1
    /\ heap[BlockOf(op.arg)].first # 0
    /\ Pool = before.pool

\* ---- get with an element constructor that throws ----
\* what T(args...) throws at line 205
ElementException == "T::T(args...)"

\* lines 193-205 when the placement new at line 205 throws: the block has
\* been chosen (and added, if need be) and ++blk->used at line 204 is done;
\* line 206 is not reached
getThrows(p, alloc) ==
    LET p1 == IF p.first_ = nullptr THEN addBlock(p, 1, alloc).pool ELSE p
        f == FindBlock(p1, p1.first_, alloc)
    IN [pool |-> [f.pool EXCEPT !.heap[f.blk].used = WrapIndex(@ + 1)],
        blk |-> f.blk,
        threw |-> ElementException]

GetThrows ==
    /\ constructed
    /\ before.state = "none"
    /\ \E alloc \in GetAllocs(Pool) :
        LET r == getThrows(Pool, alloc)
        IN /\ SetPool(r.pool)
           /\ op' = Call("get", 0, r.blk, r.threw)
    /\ trail' = NoTrail
    /\ before' = [state |-> "threw", pool |-> Pool]
    /\ UNCHANGED <<constructed, live, lastFreed, moved, thr, serialized>>

\* any calls, then one get whose element constructor throws; what is called
\* after it is not followed
NextThrow ==
    \/ before.state = "none" /\ Construct
    \/ before.state = "none" /\ ConstructDefault
    \/ before.state = "none" /\ Capacity
    \/ before.state = "none" /\ AddBlock
    \/ before.state = "none" /\ RemoveBlock
    \/ before.state = "none" /\ Resize
    \/ before.state = "none" /\ Get
    \/ before.state = "none" /\ Release
    \/ GetThrows

SpecThrow == Init /\ [][NextThrow]_vars

\* C20: when the element constructor throws inside get, the block get chose
\* (op.ret) has its used and its free list as before the call (as a fresh
\* block, if the call added it), and in every block the free list holds
\* exactly BlockCap - used slots.
C20_ThrowingGetLeavesBlockConsistent ==
    before.state = "threw" =>
        /\ heap[op.ret].used =
            (IF op.ret \in DOMAIN before.pool.heap THEN before.pool.heap[op.ret].used ELSE 0)
        /\ FreeList(heap[op.ret]) =
            (IF op.ret \in DOMAIN before.pool.heap
             THEN FreeList(before.pool.heap[op.ret])
             ELSE [i \in 1..BlockCap |-> i - 1])
        /\ \A a \in PoolBlocks(Pool) : Len(FreeList(heap[a])) = BlockCap - heap[a].used

\* ---- get and release, load by load and store by store, by callers that
\*      share the pool ----
InitRace ==
    /\ heap = <<>>
    /\ first_ = nullptr
    /\ total_block_ = 0
    /\ constructed = FALSE
    /\ live = {}
    /\ op = [name |-> "none", arg |-> 0, ret |-> 0, threw |-> NoException]
    /\ lastFreed = {}
    /\ trail = NoTrail
    /\ moved = NotMoved
    /\ before = NoBefore
    /\ thr = [t \in Threads |-> Idle]
    /\ serialized \in BOOLEAN

Quiescent == \A t \in Threads : thr[t].pc = "idle"

\* two callers hold a pointer to the same slot
DuplicateHandOut ==
    \E t \in Threads :
        /\ thr[t].pc = "get 207"
        /\ \/ thr[t].ptr \in live
           \/ \E u \in Threads \ {t} : thr[u].pc = "get 207" /\ thr[u].ptr = thr[t].ptr

\* with no call under way, some block's used is not BlockCap less the length
\* of its free list
UsedMismatch ==
    /\ Quiescent
    /\ \E a \in PoolBlocks(Pool) : Len(FreeList(heap[a])) # BlockCap - heap[a].used

\* a caller has indexed units with an index that is no unit's
OutOfBlock == \E t \in Threads : thr[t].pc = "out of units"

Corrupted == DuplicateHandOut \/ UsedMismatch \/ OutOfBlock

\* a caller may take a step when the pool is sound and, under the lock, no
\* other caller is inside a call
MayStep(t) ==
    /\ constructed
    /\ ~Corrupted
    /\ serialized => \A u \in Threads \ {t} : thr[u].pc = "idle"

At(t, pc) == MayStep(t) /\ thr[t].pc = pc
Goto(t, pc) == thr' = [thr EXCEPT ![t].pc = pc]
RaceFrame == UNCHANGED <<constructed, op, lastFreed, trail, moved, before, serialized>>

\* lines 193-194: if(first_ == nullptr) this->addBlock(1)
GetCall(t) ==
    /\ At(t, "idle")
    /\ thr[t].calls < MaxCalls
    /\ IF first_ = nullptr
       THEN \E alloc \in AllocSeqs(Pool, 1) : SetPool(addBlock(Pool, 1, alloc).pool)
       ELSE UNCHANGED <<heap, first_, total_block_>>
    /\ thr' = [thr EXCEPT ![t].pc = "get 195", ![t].calls = @ + 1]
    /\ UNCHANGED live
    /\ RaceFrame

\* line 195: blk = first_ (also after the addBlock of line 199)
GetLoadFirst(t) ==
    /\ At(t, "get 195") \/ At(t, "get 200")
    /\ thr' = [thr EXCEPT ![t].blk = first_,
                          ![t].pc = IF thr[t].pc = "get 195" THEN "get 196" ELSE "get 204"]
    /\ UNCHANGED <<heap, first_, total_block_, live>>
    /\ RaceFrame

\* lines 196-198: one turn of the loop up to the test of blk
GetScan(t) ==
    /\ At(t, "get 196")
    /\ IF FullBlock(heap[thr[t].blk])
       THEN IF heap[thr[t].blk].next = nullptr
            THEN thr' = [thr EXCEPT ![t].blk = nullptr, ![t].pc = "get 199"]
            ELSE thr' = [thr EXCEPT ![t].blk = heap[thr[t].blk].next]
       ELSE Goto(t, "get 204")
    /\ UNCHANGED <<heap, first_, total_block_, live>>
    /\ RaceFrame

\* line 199: this->addBlock(1)
GetAddBlock(t) ==
    /\ At(t, "get 199")
    /\ \E alloc \in AllocSeqs(Pool, 1) : SetPool(addBlock(Pool, 1, alloc).pool)
    /\ Goto(t, "get 200")
    /\ UNCHANGED live
    /\ RaceFrame

\* line 204, ++blk->used: the load
GetLoadUsed(t) ==
    /\ At(t, "get 204")
    /\ thr' = [thr EXCEPT ![t].tmp = heap[thr[t].blk].used, ![t].pc = "get 204 store"]
    /\ UNCHANGED <<heap, first_, total_block_, live>>
    /\ RaceFrame

\* line 204, ++blk->used: the store
GetStoreUsed(t) ==
    /\ At(t, "get 204 store")
    /\ heap' = [heap EXCEPT ![thr[t].blk].used = WrapIndex(thr[t].tmp + 1)]
    /\ thr' = [thr EXCEPT ![t].tmp = 0, ![t].pc = "get 205"]
    /\ UNCHANGED <<first_, total_block_, live>>
    /\ RaceFrame

\* line 205: ret = new(blk->units[blk->first].mem) T(args...)
GetConstruct(t) ==
    /\ At(t, "get 205")
    /\ IF heap[thr[t].blk].first \in 0..(BlockCap - 1)
       THEN thr' = [thr EXCEPT ![t].tmp = heap[thr[t].blk].first,
                               ![t].ptr = MemAddr(thr[t].blk, heap[thr[t].blk].first),
                               ![t].pc = "get 206"]
       ELSE Goto(t, "out of units")
    /\ UNCHANGED <<heap, first_, total_block_, live>>
    /\ RaceFrame

\* as AdvanceFirst, but first is left where it was
AdvanceFirst_Stay(b, i) == b

\* line 206: blk->first = blk->units[i].next
AdvanceFirst(b, i) == [b EXCEPT !.first = b.units[i].next]

\* line 206: the index is blk->first as line 205 loaded it or as it is read
\* again now
GetAdvance(t) ==
    /\ At(t, "get 206")
    /\ \E i \in {thr[t].tmp, heap[thr[t].blk].first} :
        IF i \in 0..(BlockCap - 1)
        THEN /\ heap' = [heap EXCEPT ![thr[t].blk] = AdvanceFirst(@, i)]
             /\ thr' = [thr EXCEPT ![t].tmp = 0, ![t].pc = "get 207"]
        ELSE /\ Goto(t, "out of units")
             /\ UNCHANGED heap
    /\ UNCHANGED <<first_, total_block_, live>>
    /\ RaceFrame

\* line 207: return ret
GetReturn(t) ==
    /\ At(t, "get 207")
    /\ live' = live \cup {thr[t].ptr}
    /\ thr' = [thr EXCEPT ![t] = Returned(@)]
    /\ UNCHANGED <<heap, first_, total_block_>>
    /\ RaceFrame

\* line 219: release(ptr) of a pointer the caller holds; blk = first_
ReleaseCall(t) ==
    /\ At(t, "idle")
    /\ thr[t].calls < MaxCalls
    /\ \E ptr \in live :
        /\ live' = live \ {ptr}
        /\ thr' = [thr EXCEPT ![t].ptr = ptr, ![t].blk = first_, ![t].pc = "release 220",
                              ![t].calls = @ + 1]
    /\ UNCHANGED <<heap, first_, total_block_>>
    /\ RaceFrame

\* lines 219-220 and 229-230: one turn of the loop up to the range test, or
\* the throw after the last block
ReleaseScanStep(t) ==
    /\ At(t, "release 220")
    /\ IF thr[t].blk = nullptr
       THEN /\ thr' = [thr EXCEPT ![t] = Returned(@)]
            /\ live' = live \cup {thr[t].ptr}
       ELSE /\ IF InUnits(thr[t].blk, thr[t].ptr)
               THEN Goto(t, "release 221")
               ELSE thr' = [thr EXCEPT ![t].blk = heap[thr[t].blk].next]
            /\ UNCHANGED live
    /\ UNCHANGED <<heap, first_, total_block_>>
    /\ RaceFrame

\* line 221, --(blk->used): the load
ReleaseLoadUsed(t) ==
    /\ At(t, "release 221")
    /\ thr' = [thr EXCEPT ![t].tmp = heap[thr[t].blk].used, ![t].pc = "release 221 store"]
    /\ UNCHANGED <<heap, first_, total_block_, live>>
    /\ RaceFrame

\* line 221, --(blk->used): the store
ReleaseStoreUsed(t) ==
    /\ At(t, "release 221 store")
    /\ heap' = [heap EXCEPT ![thr[t].blk].used = WrapIndex(thr[t].tmp - 1)]
    /\ thr' = [thr EXCEPT ![t].tmp = 0, ![t].pc = "release 223"]
    /\ UNCHANGED <<first_, total_block_, live>>
    /\ RaceFrame

\* lines 222-223: blk->units[offset].next = blk->first
ReleaseLink(t) ==
    /\ At(t, "release 223")
    /\ heap' = [heap EXCEPT ![thr[t].blk].units[OffsetOf(thr[t].blk, thr[t].ptr)].next =
                                heap[thr[t].blk].first]
    /\ Goto(t, "release 224")
    /\ UNCHANGED <<first_, total_block_, live>>
    /\ RaceFrame

\* lines 224-226: blk->first = offset; ~T(); return
ReleaseStoreFirst(t) ==
    /\ At(t, "release 224")
    /\ heap' = [heap EXCEPT ![thr[t].blk].first = WrapIndex(OffsetOf(thr[t].blk, thr[t].ptr))]
    /\ thr' = [thr EXCEPT ![t] = Returned(@)]
    /\ UNCHANGED <<first_, total_block_, live>>
    /\ RaceFrame

NextRace ==
    \/ Construct
    \/ ConstructDefault
    \/ \E t \in Threads : GetCall(t)
    \/ \E t \in Threads : GetLoadFirst(t)
    \/ \E t \in Threads : GetScan(t)
    \/ \E t \in Threads : GetAddBlock(t)
    \/ \E t \in Threads : GetLoadUsed(t)
    \/ \E t \in Threads : GetStoreUsed(t)
    \/ \E t \in Threads : GetConstruct(t)
    \/ \E t \in Threads : GetAdvance(t)
    \/ \E t \in Threads : GetReturn(t)
    \/ \E t \in Threads : ReleaseCall(t)
    \/ \E t \in Threads : ReleaseScanStep(t)
    \/ \E t \in Threads : ReleaseLoadUsed(t)
    \/ \E t \in Threads : ReleaseStoreUsed(t)
    \/ \E t \in Threads : ReleaseLink(t)
    \/ \E t \in Threads : ReleaseStoreFirst(t)

SpecRace == InitRace /\ [][NextRace]_vars

\* C18: with every call on the pool under one lock (each get and release
\* runs from its first step to its last with no step of another call in
\* between) no slot is handed to two callers, no caller indexes outside the
\* units, no release throws, and between calls every block's used is
\* BlockCap less the length of its free list and the pointers held are
\* exactly the slots in use.  (Without the lock such states are reached:
\* C18_Witness.)
C18_SerializedCallsKeepPoolSound ==
    serialized =>
        /\ ~DuplicateHandOut
        /\ ~OutOfBlock
        /\ ~UsedMismatch
        /\ Cardinality({t \in Threads : thr[t].pc # "idle"}) <= 1
        /\ \A t \in Threads : thr[t].pc = "release 220" => thr[t].blk # nullptr
        /\ (constructed /\ Quiescent => live = InUseSlots(Pool))

\* without the lock, the steps of two gets have interleaved and both hold the
\* same slot
C18_Witness ==
    /\ ~serialized
    /\ \E t, u \in Threads :
        /\ t # u
        /\ thr[t].pc = "get 207"
        /\ thr[u].pc = "get 207"
        /\ thr[t].ptr = thr[u].ptr

\* without the lock, a get and a release have interleaved and left a block
\* whose used does not match its free list
C18_MismatchReached ==
    /\ ~serialized
    /\ UsedMismatch
    /\ ~DuplicateHandOut
====
